---- MODULE Spec2Model ----
(***************************************************************************)
(* A model of outetts/version/v1/interface.py: the streaming producer and  *)
(* the audio player thread of InterfaceHF.generate_stream, the generation  *)
(* length check of generate, change_language, load_default_speaker and     *)
(* create_speaker.                                                         *)
(*                                                                         *)
(* A Python str is a sequence of one-character strings; None is -1 where  *)
(* a value is a number, NoChunk where it is an audio chunk, and the string *)
(* "None" elsewhere.                                                       *)
(***************************************************************************)
EXTENDS Integers, Sequences, FiniteSets, TLC

VARIABLES
    \* ---- generate_stream: the calling thread (producer)
    pc,              \* position of the calling thread in generate_stream
    segments,        \* segments = self.split_text(text)
    chunk_size,      \* argument chunk_size
    stream_segments, \* argument stream_segments
    max_length,      \* argument max_length (None is -1)
    idx,             \* number of segments the for loop has started
    tokens,          \* what model.generate streams for the current segment
    model_fails,     \* whether model.generate raises after those tokens
    yields,          \* chunks the current _generate_stream has still to yield
    gen_err,         \* exception the current _generate_stream ends with
    caught,          \* exception logged by "except Exception as e"
    propagated,      \* exception that left generate_stream
    produced,        \* history: every chunk put on the queue, in order
    sentinels,       \* history: number of None put on the queue
    \* ---- the queue and the player thread
    audio_queue,     \* self.audio_queue, a FIFO
    unfinished,      \* the queue's unfinished_tasks counter
    player,          \* state of audio_thread
    chunk,           \* the chunk _audio_player holds
    played,          \* history: chunks whose play() returned, in order
    \* ---- the interface object
    model_calls,     \* history: max_length of every model.generate call
    max_seq_length,  \* self.config.max_seq_length
    languages,       \* self.languages
    language,        \* self.language
    config_language, \* config.language, as given to __init__
    \* ---- the last call of generate, change_language, load_default_speaker
    last_call,
    result,
    \* ---- create_speaker
    sp_input,        \* transcript, whisper's answer, words, codes, rate
    sp_calls,        \* which of whisper, align, encode were called
    sp_result

vars == <<pc, segments, chunk_size, stream_segments, max_length, idx, tokens,
          model_fails, yields, gen_err, caught, propagated, produced,
          sentinels, audio_queue, unfinished, player, chunk, played,
          model_calls, max_seq_length, languages, language, config_language,
          last_call, result, sp_input, sp_calls, sp_result>>

streamVars == <<pc, segments, chunk_size, stream_segments, max_length, idx,
                tokens, model_fails, yields, gen_err, caught, propagated,
                produced, sentinels, audio_queue, unfinished, player, chunk,
                played>>

objectVars == <<languages, language, config_language>>

callVars == <<last_call, result>>

speakerVars == <<sp_input, sp_calls, sp_result>>

-----------------------------------------------------------------------------
\* Bounds of the model.

MaxTextLen == 3      \* characters of the text given to generate_stream
MaxTokens == 5       \* tokens model.generate streams for one segment
MaxLength == 3       \* largest max_length and max_seq_length
MaxPad == 1          \* whitespace characters put around a name
MaxWords == 2        \* aligned words in create_speaker
MaxX1 == 5           \* largest word end position x1, in samples
MaxCodes == 3        \* length of the encoded code sequence

None == -1

-----------------------------------------------------------------------------
\* Python str operations.

\* str.isspace of one character
IsSpace(c) == c \in {" ", "\t", "\n", "\r"}

UpperChars == <<"A", "E", "F", "J", "K", "L", "M", "N", "O", "R", "Z", "H">>
LowerChars == <<"a", "e", "f", "j", "k", "l", "m", "n", "o", "r", "z", "h">>

\* str.lower of one character
LowerChar(c) ==
    IF \E i \in 1..Len(UpperChars) : UpperChars[i] = c
    THEN LowerChars[CHOOSE i \in 1..Len(UpperChars) : UpperChars[i] = c]
    ELSE c

\* str.lower
Lower(s) == [i \in 1..Len(s) |-> LowerChar(s[i])]

\* str.strip
Strip(s) ==
    IF \A i \in 1..Len(s) : IsSpace(s[i])
    THEN <<>>
    ELSE LET first == CHOOSE i \in 1..Len(s) :
                          /\ ~IsSpace(s[i])
                          /\ \A j \in 1..(i - 1) : IsSpace(s[j])
             last == CHOOSE i \in 1..Len(s) :
                          /\ ~IsSpace(s[i])
                          /\ \A j \in (i + 1)..Len(s) : IsSpace(s[j])
         IN SubSeq(s, first, last)

\* all sequences over S of length at most n
RECURSIVE SeqsUpTo(_, _)
SeqsUpTo(S, n) ==
    IF n = 0 THEN {<<>>}
    ELSE LET shorter == SeqsUpTo(S, n - 1)
         IN shorter \cup {Append(s, x) : s \in {t \in shorter : Len(t) = n - 1}, x \in S}

-----------------------------------------------------------------------------
\* split_text

\* the default delimiters (the ASCII ones; "\r\n" splits as "\r" then "\n")
Delimiters == {".", "?", "!", ";", ":", "\n", "\r", "\t"}

\* re.split(pattern, text): the pieces between delimiters, empty ones kept
RECURSIVE re_split(_, _, _)
re_split(text, i, piece) ==
    IF i > Len(text) THEN <<piece>>
    ELSE IF text[i] \in Delimiters
         THEN <<piece>> \o re_split(text, i + 1, <<>>)
         ELSE re_split(text, i + 1, Append(piece, text[i]))

split_text(text) ==
    LET split_result == re_split(text, 1, <<>>)
        cleaned_sentences == [i \in 1..Len(split_result) |-> Strip(split_result[i])]
    IN SelectSeq(cleaned_sentences, LAMBDA s : s # <<>>)

-----------------------------------------------------------------------------
\* The generation length check and the chunk decoder.

ValueError == "ValueError"
AttributeError == "AttributeError"
RuntimeError == "RuntimeError"
ZeroDivisionError == "ZeroDivisionError"
NoError == "none"

check_generation_max_length_off_by_one(maxlen, seq_length) ==
    IF maxlen = None THEN ValueError
    ELSE IF maxlen >= seq_length THEN ValueError
    ELSE NoError

\* check_generation_max_length: the exception it raises, or NoError
check_generation_max_length(maxlen, seq_length) ==
    IF maxlen = None THEN ValueError
    ELSE IF maxlen > seq_length THEN ValueError
    ELSE NoError

\* None where a ModelOutput is expected (a ModelOutput has segment >= 1)
NoChunk == [segment |-> 0, start |-> 0, size |-> 0]

TokenKinds == {"audio", "code_end"}
code_end_token == "code_end"

\* prompt_processor.extract_audio_from_tokens: the audio codes among the tokens
extract_audio_from_tokens(toks) == SelectSeq(toks, LAMBDA t : t = "audio")

\* get_audio: None when the tokens hold no audio code, else the decoded
\* audio, of which the model keeps the length (one sample per code)
get_audio(toks) ==
    LET output == extract_audio_from_tokens(toks)
    IN IF output = <<>> THEN None ELSE Len(output)

\* _create_audio_chunk: audio.size() raises AttributeError on None; else
\* the ModelOutput of audio[:, idx:] (tagged with the segment it speaks) and
\* the size of the whole audio
_create_audio_chunk(seg, toks, start) ==
    LET audio == get_audio(toks)
    IN IF audio = None
       THEN [err |-> AttributeError, output |-> NoChunk, size |-> start]
       ELSE [err |-> NoError,
             output |-> [segment |-> seg, start |-> start, size |-> audio],
             size |-> audio]

\* the for loop of _generate_stream over the tokens model.generate streams
\* (toks, then an exception when fails), and the flush after it; the audio
\* buffer before token i is SubSeq(toks, 1, i - 1)
RECURSIVE stream_loop(_, _, _, _, _, _, _, _, _)
stream_loop(seg, toks, fails, size, by_segment, i, start_index, chunks, out) ==
    IF i > Len(toks)
    THEN IF fails
         THEN [yields |-> out, err |-> RuntimeError, model_called |-> TRUE]
         ELSE IF toks # <<>>
              THEN LET c == _create_audio_chunk(seg, toks, start_index)
                   IN [yields |-> IF c.err = NoError THEN Append(out, c.output) ELSE out,
                       err |-> c.err, model_called |-> TRUE]
              ELSE [yields |-> out, err |-> NoError, model_called |-> TRUE]
    ELSE LET audio_buffer == SubSeq(toks, 1, i)
             counted == IF ~by_segment /\ toks[i] = code_end_token
                        THEN chunks + 1 ELSE chunks
         IN IF ~by_segment /\ counted = size
            THEN LET c == _create_audio_chunk(seg, audio_buffer, start_index)
                 IN IF c.err # NoError
                    THEN [yields |-> out, err |-> c.err, model_called |-> TRUE]
                    ELSE stream_loop(seg, toks, fails, size, by_segment, i + 1,
                                     c.size, 0, Append(out, c.output))
            ELSE stream_loop(seg, toks, fails, size, by_segment, i + 1,
                             start_index, counted, out)

MinChunkSize == 4

\* _generate_stream run to its end: the chunks it yields, the exception it
\* ends with, and whether it called model.generate
_generate_stream(seg, toks, fails, maxlen, size, by_segment, seq_length) ==
    IF size < MinChunkSize
    THEN [yields |-> <<>>, err |-> ValueError, model_called |-> FALSE]
    ELSE IF check_generation_max_length(maxlen, seq_length) # NoError
         THEN [yields |-> <<>>, err |-> ValueError, model_called |-> FALSE]
         ELSE stream_loop(seg, toks, fails, size, by_segment, 1, 0, 0, <<>>)

-----------------------------------------------------------------------------
\* generate_stream and _audio_player

\* queue.Queue.put and queue.Queue.get: first in, first out
queue_put_lifo(q, item) == <<item>> \o q
queue_put(q, item) == Append(q, item)
queue_get(q) == [item |-> Head(q), rest |-> Tail(q)]

\* "except Exception": every exception of the try body is an Exception
CatchesValueErrorOnly(e) == e = ValueError
Catches(e) == TRUE

TextChars == {"a", ".", " "}
Texts == SeqsUpTo(TextChars, MaxTextLen)
ChunkSizes == {MinChunkSize - 1, MinChunkSize}
TokenStreams == SeqsUpTo(TokenKinds, MaxTokens)
StreamMaxLengths == {MaxLength - 1, MaxLength}

InitObject ==
    /\ languages = <<>>
    /\ language = <<"e", "n">>
    /\ config_language = <<"e", "n">>

NoCall == [op |-> "none", arg |-> <<>>, before |-> <<>>]
NoResult == [err |-> NoError, model_called |-> FALSE, value |-> None]

\* None where a transcript is expected
NoTranscript == <<"None">>

CodesPerSecond == 75

\* create_speaker not called yet
NoSpeakerInput ==
    [transcript |-> NoTranscript, heard |-> <<>>, words |-> <<>>,
     full_codes |-> <<>>, sample_rate |-> CodesPerSecond]

NotCalled == [err |-> "not called", model_called |-> FALSE, value |-> None]

InitSpeaker ==
    /\ sp_input = NoSpeakerInput
    /\ sp_calls = {}
    /\ sp_result = NotCalled

InitCalls ==
    /\ last_call = NoCall
    /\ result = NoResult
    /\ model_calls = {}

InitStreamVars ==
    /\ pc = "idle"
    /\ segments = <<>>
    /\ chunk_size = MinChunkSize
    /\ stream_segments = TRUE
    /\ max_length = None
    /\ idx = 0
    /\ tokens = <<>>
    /\ model_fails = FALSE
    /\ yields = <<>>
    /\ gen_err = NoError
    /\ caught = NoError
    /\ propagated = NoError
    /\ produced = <<>>
    /\ sentinels = 0
    /\ audio_queue = <<>>
    /\ unfinished = 0
    /\ player = "unstarted"
    /\ chunk = NoChunk
    /\ played = <<>>

Init ==
    /\ InitStreamVars
    /\ InitObject
    /\ InitCalls
    /\ InitSpeaker
    /\ max_seq_length = MaxLength - 1

\* generate_stream, lines 359-368: the queue, the player thread, the split
\* and the log line that divides by len(segments)
GenerateStream(text, size, by_segment, maxlen) ==
    /\ pc = "idle"
    /\ audio_queue' = <<>>
    /\ unfinished' = 0
    /\ player' = "waiting"
    /\ segments' = split_text(text)
    /\ chunk_size' = size
    /\ stream_segments' = by_segment
    /\ max_length' = maxlen
    /\ IF Len(split_text(text)) = 0
       THEN /\ propagated' = ZeroDivisionError
            /\ pc' = "raised"
       ELSE /\ propagated' = propagated
            /\ pc' = "loop"
    /\ UNCHANGED <<idx, tokens, model_fails, yields, gen_err, caught, produced,
                   sentinels, chunk, played>>
    /\ UNCHANGED <<model_calls, max_seq_length, objectVars, callVars, speakerVars>>

\* the for loop takes the next segment and starts _generate_stream on it
ProducerNextSegment(toks, fails) ==
    /\ pc = "loop"
    /\ idx < Len(segments)
    /\ LET r == _generate_stream(idx + 1, toks, fails, max_length, chunk_size,
                                      stream_segments, max_seq_length)
       IN /\ yields' = r.yields
          /\ gen_err' = r.err
          /\ tokens' = toks
          /\ model_fails' = fails
          /\ model_calls' = IF r.model_called
                            THEN model_calls \cup {max_length} ELSE model_calls
    /\ idx' = idx + 1
    /\ pc' = "segment"
    /\ UNCHANGED <<segments, chunk_size, stream_segments, max_length, caught,
                   propagated, produced, sentinels, audio_queue, unfinished,
                   player, chunk, played>>
    /\ UNCHANGED <<max_seq_length, objectVars, callVars, speakerVars>>

\* self.audio_queue.put(i) for the next chunk _generate_stream yields
ProducerPut ==
    /\ pc = "segment"
    /\ yields # <<>>
    /\ audio_queue' = queue_put(audio_queue, Head(yields))
    /\ unfinished' = unfinished + 1
    /\ produced' = Append(produced, Head(yields))
    /\ yields' = Tail(yields)
    /\ UNCHANGED <<pc, segments, chunk_size, stream_segments, max_length, idx,
                   tokens, model_fails, gen_err, caught, propagated, sentinels,
                   player, chunk, played>>
    /\ UNCHANGED <<model_calls, max_seq_length, objectVars, callVars, speakerVars>>

\* _generate_stream ends, and its token stream with it: normally (back to
\* the for loop), or with an exception, which "except Exception" logs
ProducerSegmentEnd ==
    /\ pc = "segment"
    /\ yields = <<>>
    /\ IF gen_err = NoError
       THEN /\ pc' = "loop"
            /\ UNCHANGED <<caught, propagated>>
       ELSE IF Catches(gen_err)
            THEN /\ pc' = "sentinel"
                 /\ caught' = gen_err
                 /\ UNCHANGED propagated
            ELSE /\ pc' = "raised"
                 /\ propagated' = gen_err
                 /\ UNCHANGED caught
    /\ tokens' = <<>>
    /\ model_fails' = FALSE
    /\ UNCHANGED <<segments, chunk_size, stream_segments, max_length, idx,
                   yields, gen_err, produced, sentinels, audio_queue,
                   unfinished, player, chunk, played>>
    /\ UNCHANGED <<model_calls, max_seq_length, objectVars, callVars, speakerVars>>

\* the for loop has no segment left
ProducerLoopEnd ==
    /\ pc = "loop"
    /\ idx = Len(segments)
    /\ pc' = "sentinel"
    /\ UNCHANGED <<segments, chunk_size, stream_segments, max_length, idx,
                   tokens, model_fails, yields, gen_err, caught, propagated,
                   produced, sentinels, audio_queue, unfinished, player, chunk,
                   played>>
    /\ UNCHANGED <<model_calls, max_seq_length, objectVars, callVars, speakerVars>>

\* self.audio_queue.put(None)
ProducerPutSentinel ==
    /\ pc = "sentinel"
    /\ audio_queue' = queue_put(audio_queue, NoChunk)
    /\ unfinished' = unfinished + 1
    /\ sentinels' = sentinels + 1
    /\ pc' = "join"
    /\ UNCHANGED <<segments, chunk_size, stream_segments, max_length, idx,
                   tokens, model_fails, yields, gen_err, caught, propagated,
                   produced, player, chunk, played>>
    /\ UNCHANGED <<model_calls, max_seq_length, objectVars, callVars, speakerVars>>

\* audio_thread.join() returns once the thread has ended; del self.audio_queue
\* (the model keeps what the queue held)
ProducerJoin ==
    /\ pc = "join"
    /\ player = "exited"
    /\ pc' = "returned"
    /\ UNCHANGED <<segments, chunk_size, stream_segments, max_length, idx,
                   tokens, model_fails, yields, gen_err, caught, propagated,
                   produced, sentinels, audio_queue, unfinished, player, chunk,
                   played>>
    /\ UNCHANGED <<model_calls, max_seq_length, objectVars, callVars, speakerVars>>

\* _audio_player: chunk = self.audio_queue.get(); break on None
PlayerGet ==
    /\ player = "waiting"
    /\ audio_queue # <<>>
    /\ audio_queue' = queue_get(audio_queue).rest
    /\ IF queue_get(audio_queue).item = NoChunk
       THEN /\ player' = "exited"
            /\ chunk' = NoChunk
       ELSE /\ player' = "playing"
            /\ chunk' = queue_get(audio_queue).item
    /\ UNCHANGED <<pc, segments, chunk_size, stream_segments, max_length, idx,
                   tokens, model_fails, yields, gen_err, caught, propagated,
                   produced, sentinels, unfinished, played>>
    /\ UNCHANGED <<model_calls, max_seq_length, objectVars, callVars, speakerVars>>

\* chunk.play() plays the chunk and returns (ModelOutput.play is not part of
\* this file); self.audio_queue.task_done()
PlayerPlay ==
    /\ player = "playing"
    /\ played' = Append(played, chunk)
    /\ unfinished' = unfinished - 1
    /\ player' = "waiting"
    /\ chunk' = NoChunk
    /\ UNCHANGED <<pc, segments, chunk_size, stream_segments, max_length, idx,
                   tokens, model_fails, yields, gen_err, caught, propagated,
                   produced, sentinels, audio_queue>>
    /\ UNCHANGED <<model_calls, max_seq_length, objectVars, callVars, speakerVars>>

Next ==
    \/ \E text \in Texts, size \in ChunkSizes, by_segment \in BOOLEAN,
          maxlen \in StreamMaxLengths :
           GenerateStream(text, size, by_segment, maxlen)
    \/ \E toks \in TokenStreams, fails \in BOOLEAN : ProducerNextSegment(toks, fails)
    \/ ProducerPut
    \/ ProducerSegmentEnd
    \/ ProducerLoopEnd
    \/ ProducerPutSentinel
    \/ ProducerJoin
    \/ PlayerGet
    \/ PlayerPlay

Spec == Init /\ [][Next]_vars

-----------------------------------------------------------------------------
\* Properties of generate_stream.

Range(s) == {s[i] : i \in 1..Len(s)}

IsPrefix(s, t) == Len(s) <= Len(t) /\ s = SubSeq(t, 1, Len(s))

\* chunks of an earlier segment come first, chunks of one segment in the
\* order _generate_stream cut them from the audio
InYieldOrder(s) ==
    \A i, j \in 1..Len(s) :
        i < j => \/ s[i].segment < s[j].segment
                 \/ s[i].segment = s[j].segment /\ s[i].start <= s[j].start

CallEnded == pc \in {"returned", "raised"}

\* C1: the player plays the chunks put on the queue in the order they were
\* put (earlier segments first, one segment's chunks in yield order), each
\* once, and all of them by the time generate_stream has returned.
C1_EveryChunkPlayedInOrder ==
    /\ IsPrefix(played, produced)
    /\ InYieldOrder(produced)
    /\ pc = "returned" => played = produced

C1_Witness ==
    /\ pc = "returned"
    /\ Len(played) >= 3
    /\ played[1].segment = 1
    /\ played[2].segment = 1
    /\ played[Len(played)].segment = 2

\* C2: the sentinel is put exactly once per call and after every chunk; the
\* player stops only by taking it; nothing is left unplayed when the call
\* ends.
C2_SentinelOnceAndLast ==
    /\ sentinels <= 1
    /\ \A i \in 1..Len(audio_queue) : audio_queue[i] = NoChunk => i = Len(audio_queue)
    /\ sentinels = 1 => pc \in {"join", "returned"}
    /\ player = "exited" => sentinels = 1
    /\ CallEnded => sentinels = 1 /\ played = produced

\* the chunks the current _generate_stream yields in all: those already put
\* and those still to come
YieldsOfSegment == SelectSeq(produced, LAMBDA c : c.segment = idx) \o yields

DefaultChunkSize == 8

\* C3: with stream_segments = True the run of _generate_stream on a segment
\* (its chunks and its exception) is the same for every chunk_size, the
\* model streaming the same tokens.
C3_ChunkSizeIgnored ==
    (stream_segments /\ pc = "segment") =>
        \A size \in ChunkSizes \cup {DefaultChunkSize} :
            LET r == _generate_stream(idx, tokens, model_fails, max_length,
                                           size, TRUE, max_seq_length)
            IN r.yields = YieldsOfSegment /\ r.err = gen_err

\* C5: an exception raised while a segment's audio is produced is
\* logged and does not leave generate_stream; no later segment is started
\* (the calling thread is past the for loop, never back at it); the
\* sentinel is put and the player joined before the return; every chunk
\* put before is played.
C5_ProducerErrorHandled ==
    gen_err # NoError =>
        /\ propagated = NoError
        /\ pc \in {"segment", "sentinel", "join", "returned"}
        /\ pc # "segment" => caught = gen_err /\ yields = <<>>
        /\ pc \in {"join", "returned"} => sentinels = 1
        /\ pc = "returned" =>
              /\ player = "exited"
              /\ played = produced

C5_Witness ==
    /\ gen_err = RuntimeError
    /\ pc = "returned"
    /\ idx < Len(segments)
    /\ played # <<>>
    /\ played = produced

\* C7: every call of generate_stream ends with its player thread ended.
C7_PlayerEndsWithCall ==
    CallEnded => player = "exited"

-----------------------------------------------------------------------------
\* generate of the three interfaces, and _generate_stream run to its end.

\* the prompt of prepare_prompt: text tokens and a speaker's audio codes
Prompt == <<"text", "audio">>

\* InterfaceHF.generate: model.generate returns the prompt and what it
\* generated (gen, or an exception when fails); the prompt is cut off
generate_hf(maxlen, gen, fails, seq_length) ==
    LET input_ids == Prompt
    IN IF check_generation_max_length(maxlen, seq_length) # NoError
       THEN [err |-> ValueError, model_called |-> FALSE, value |-> None]
       ELSE IF fails
            THEN [err |-> RuntimeError, model_called |-> TRUE, value |-> None]
            ELSE LET output == input_ids \o gen
                 IN [err |-> NoError, model_called |-> TRUE,
                     value |-> get_audio(SubSeq(output, Len(input_ids) + 1, Len(output)))]

\* InterfaceGGUF.generate: model.generate returns what it generated
generate_gguf(maxlen, gen, fails, seq_length) ==
    IF check_generation_max_length(maxlen, seq_length) # NoError
    THEN [err |-> ValueError, model_called |-> FALSE, value |-> None]
    ELSE IF fails
         THEN [err |-> RuntimeError, model_called |-> TRUE, value |-> None]
         ELSE [err |-> NoError, model_called |-> TRUE, value |-> get_audio(gen)]

\* InterfaceEXL2.generate
generate_exl2(maxlen, gen, fails, seq_length) ==
    IF check_generation_max_length(maxlen, seq_length) # NoError
    THEN [err |-> ValueError, model_called |-> FALSE, value |-> None]
    ELSE IF fails
         THEN [err |-> RuntimeError, model_called |-> TRUE, value |-> None]
         ELSE [err |-> NoError, model_called |-> TRUE, value |-> get_audio(gen)]

MaxLengths == {None} \cup 0..(MaxLength + 1)

\* what model.generate returns to the calls of this part
ShortStreams == {toks \in TokenStreams : Len(toks) <= 2}

InitGenerate ==
    /\ InitStreamVars
    /\ InitObject
    /\ InitCalls
    /\ InitSpeaker
    /\ max_seq_length \in 0..MaxLength

\* the effect of one call on the interface and on the record of the call
Called(op, maxlen, size, r) ==
    /\ last_call' = [op |-> op, arg |-> [max_length |-> maxlen, chunk_size |-> size],
                     before |-> <<>>]
    /\ result' = r
    /\ model_calls' = IF r.model_called THEN model_calls \cup {maxlen} ELSE model_calls
    /\ UNCHANGED <<max_seq_length, streamVars, objectVars, speakerVars>>

GenerateHF(maxlen, gen, fails) ==
    /\ pc = "idle"
    /\ Called("InterfaceHF.generate", maxlen, DefaultChunkSize,
              generate_hf(maxlen, gen, fails, max_seq_length))

GenerateGGUF(maxlen, gen, fails) ==
    /\ pc = "idle"
    /\ Called("InterfaceGGUF.generate", maxlen, DefaultChunkSize,
              generate_gguf(maxlen, gen, fails, max_seq_length))

GenerateEXL2(maxlen, gen, fails) ==
    /\ pc = "idle"
    /\ Called("InterfaceEXL2.generate", maxlen, DefaultChunkSize,
              generate_exl2(maxlen, gen, fails, max_seq_length))

\* _generate_stream on one text, iterated to its end
GenerateStreamInner(maxlen, size, by_segment, toks, fails) ==
    /\ pc = "idle"
    /\ LET r == _generate_stream(1, toks, fails, maxlen, size, by_segment,
                                      max_seq_length)
       IN Called("_generate_stream", maxlen, size,
                 [err |-> r.err, model_called |-> r.model_called,
                  value |-> Len(r.yields)])

NextGenerate ==
    \/ \E maxlen \in MaxLengths, gen \in ShortStreams, fails \in BOOLEAN :
           GenerateHF(maxlen, gen, fails)
    \/ \E maxlen \in MaxLengths, gen \in ShortStreams, fails \in BOOLEAN :
           GenerateGGUF(maxlen, gen, fails)
    \/ \E maxlen \in MaxLengths, gen \in ShortStreams, fails \in BOOLEAN :
           GenerateEXL2(maxlen, gen, fails)
    \/ \E maxlen \in MaxLengths, size \in ChunkSizes, by_segment \in BOOLEAN,
          toks \in ShortStreams, fails \in BOOLEAN :
           GenerateStreamInner(maxlen, size, by_segment, toks, fails)

SpecGenerate == InitGenerate /\ [][NextGenerate]_vars

ValidLength(maxlen) == maxlen # None /\ maxlen <= max_seq_length

\* C4: model.generate is only ever called with a max_length that is given
\* and at most config.max_seq_length; a call with max_length None or above
\* max_seq_length ends with ValueError and without a model.generate call;
\* with max_length <= max_seq_length the check raises nothing, so the call
\* goes on to model.generate (in _generate_stream: when chunk_size >= 4).
C4_ModelCalledWithValidLength ==
    /\ \A m \in model_calls : ValidLength(m)
    /\ last_call.op # "none" =>
          IF ValidLength(last_call.arg.max_length)
          THEN \/ result.model_called
               \/ /\ last_call.op = "_generate_stream"
                  /\ last_call.arg.chunk_size < MinChunkSize
                  /\ result.err = ValueError
          ELSE result.err = ValueError /\ ~result.model_called

C4_Witness ==
    /\ last_call.op = "InterfaceEXL2.generate"
    /\ last_call.arg.max_length = max_seq_length
    /\ result.model_called
    /\ None \notin model_calls
    /\ Cardinality(model_calls) >= 2

-----------------------------------------------------------------------------
\* change_language and load_default_speaker.

en == <<"e", "n">>
ja == <<"j", "a">>
ko == <<"k", "o">>
zh == <<"z", "h">>
fr == <<"f", "r">>

male_1 == <<"m", "a", "l", "e", "_", "1">>
male_2 == <<"m", "a", "l", "e", "_", "2">>
male_3 == <<"m", "a", "l", "e", "_", "3">>
male_4 == <<"m", "a", "l", "e", "_", "4">>
male_9 == <<"m", "a", "l", "e", "_", "9">>
female_1 == <<"f", "e", "m", "a", "l", "e", "_", "1">>
female_2 == <<"f", "e", "m", "a", "l", "e", "_", "2">>
female_3 == <<"f", "e", "m", "a", "l", "e", "_", "3">>

DEFAULT_SPEAKERS_DIR == <<"default_speakers">>

\* os.path.join(DEFAULT_SPEAKERS_DIR, f"{speaker_name}.json")
get_speaker_path(speaker_name) ==
    DEFAULT_SPEAKERS_DIR \o <<"/">> \o speaker_name \o <<".json">>

\* the speaker file name the table gives: "<language>_<name>"
FileOf(lang, name) == get_speaker_path(lang \o <<"_">> \o name)

\* _DEFAULT_SPEAKERS
_DEFAULT_SPEAKERS ==
    (en :> (male_1 :> FileOf(en, male_1) @@ male_2 :> FileOf(en, male_2) @@
            male_3 :> FileOf(en, male_3) @@ male_4 :> FileOf(en, male_4) @@
            female_1 :> FileOf(en, female_1) @@ female_2 :> FileOf(en, female_2))) @@
    (ja :> (male_1 :> FileOf(ja, male_1) @@ female_1 :> FileOf(ja, female_1) @@
            female_2 :> FileOf(ja, female_2) @@ female_3 :> FileOf(ja, female_3))) @@
    (ko :> (male_1 :> FileOf(ko, male_1) @@ male_2 :> FileOf(ko, male_2) @@
            female_1 :> FileOf(ko, female_1) @@ female_2 :> FileOf(ko, female_2))) @@
    (zh :> (male_1 :> FileOf(zh, male_1) @@ female_1 :> FileOf(zh, female_1)))

\* load_speaker: the JSON the file at path holds
load_speaker(path) == [file |-> path]

load_default_speaker_unstripped(lang, name) ==
    LET n == Lower(name)
        l == Strip(Lower(lang))
    IN IF l \notin DOMAIN _DEFAULT_SPEAKERS
       THEN [err |-> ValueError, model_called |-> FALSE, value |-> None]
       ELSE IF n \notin DOMAIN _DEFAULT_SPEAKERS[l]
            THEN [err |-> ValueError, model_called |-> FALSE, value |-> None]
            ELSE [err |-> NoError, model_called |-> FALSE,
                  value |-> load_speaker(_DEFAULT_SPEAKERS[l][n])]

\* load_default_speaker on an interface whose language is lang
load_default_speaker(lang, name) ==
    LET n == Strip(Lower(name))
        l == Strip(Lower(lang))
    IN IF l \notin DOMAIN _DEFAULT_SPEAKERS
       THEN [err |-> ValueError, model_called |-> FALSE, value |-> None]
       ELSE IF n \notin DOMAIN _DEFAULT_SPEAKERS[l]
            THEN [err |-> ValueError, model_called |-> FALSE, value |-> None]
            ELSE [err |-> NoError, model_called |-> FALSE,
                  value |-> load_speaker(_DEFAULT_SPEAKERS[l][n])]

change_language_unchecked(supported, lang, l) ==
    [err |-> NoError, language |-> Strip(Lower(l))]

\* change_language: the exception it raises and self.language after it
change_language(supported, lang, l) ==
    LET normal == Strip(Lower(l))
    IN IF \A i \in 1..Len(supported) : supported[i] # normal
       THEN [err |-> ValueError, language |-> lang]
       ELSE [err |-> NoError, language |-> normal]

\* ---- the inputs: names and languages in several spellings

UpperChar(c) ==
    IF \E i \in 1..Len(LowerChars) : LowerChars[i] = c
    THEN UpperChars[CHOOSE i \in 1..Len(LowerChars) : LowerChars[i] = c]
    ELSE c

Upper(s) == [i \in 1..Len(s) |-> UpperChar(s[i])]

Spaces(n) == [i \in 1..n |-> " "]

Spellings(base) ==
    {Spaces(l) \o c \o Spaces(r) : l \in 0..MaxPad, r \in 0..MaxPad, c \in {base, Upper(base)}}

NameInputs == UNION {Spellings(b) : b \in {male_1, female_3, male_9}}
LanguageInputs == UNION {Spellings(b) : b \in {en, ja, fr}}
ConfigLanguages == {en, <<" ">> \o Upper(ja), fr}
ConfigLanguageLists == {<<>>, <<en, ja, ko, zh>>, <<fr, Upper(ja)>>}

InitLanguage ==
    /\ InitStreamVars
    /\ InitCalls
    /\ InitSpeaker
    /\ max_seq_length = MaxLength
    /\ languages \in ConfigLanguageLists
    /\ config_language \in ConfigLanguages
    /\ language = config_language

ChangeLanguage(l) ==
    /\ pc = "idle"
    /\ LET r == change_language(languages, language, l)
       IN /\ language' = r.language
          /\ result' = [err |-> r.err, model_called |-> FALSE, value |-> None]
    /\ last_call' = [op |-> "change_language", arg |-> l, before |-> language]
    /\ UNCHANGED <<languages, config_language, model_calls, max_seq_length,
                   streamVars, speakerVars>>

LoadDefaultSpeaker(name) ==
    /\ pc = "idle"
    /\ result' = load_default_speaker(language, name)
    /\ last_call' = [op |-> "load_default_speaker", arg |-> name, before |-> language]
    /\ UNCHANGED <<objectVars, model_calls, max_seq_length, streamVars, speakerVars>>

NextLanguage ==
    \/ \E l \in LanguageInputs : ChangeLanguage(l)
    \/ \E name \in NameInputs : LoadDefaultSpeaker(name)

SpecLanguage == InitLanguage /\ [][NextLanguage]_vars

\* ---- what "the same name but for case and surrounding whitespace" means

IsUpper(c) == \E i \in 1..Len(UpperChars) : UpperChars[i] = c

\* key is in the form the program compares: no upper case letter, no
\* whitespace at either end
Normalized(key) ==
    /\ \A i \in 1..Len(key) : ~IsUpper(key[i])
    /\ key # <<>> => ~IsSpace(key[1]) /\ ~IsSpace(key[Len(key)])

SameLetter(c, d) ==
    \/ c = d
    \/ \E i \in 1..Len(UpperChars) : {c, d} = {UpperChars[i], LowerChars[i]}

\* given is key with whitespace around it, letter by letter up to case
Matches(given, key) ==
    \E l \in 0..Len(given) :
        /\ l + Len(key) <= Len(given)
        /\ \A i \in 1..l : IsSpace(given[i])
        /\ \A i \in 1..Len(key) : SameLetter(given[l + i], key[i])
        /\ \A i \in (l + Len(key) + 1)..Len(given) : IsSpace(given[i])

\* C6: change_language(l) sets the language to the supported language that
\* is l lower-cased and stripped, and raises ValueError, leaving the
\* language as it was, when there is none; so the language is always the
\* configured one or one of the supported ones.
C6_LanguageSupportedOrConfigured ==
    /\ language = config_language \/ language \in Range(languages)
    /\ last_call.op = "change_language" =>
          IF \E k \in Range(languages) : Normalized(k) /\ Matches(last_call.arg, k)
          THEN /\ result.err = NoError
               /\ language \in Range(languages)
               /\ Normalized(language)
               /\ Matches(last_call.arg, language)
          ELSE /\ result.err = ValueError
               /\ language = last_call.before

C6_Witness ==
    /\ last_call.op = "change_language"
    /\ result.err = NoError
    /\ language # last_call.before
    /\ language # last_call.arg
    /\ language # config_language

\* C9: load_default_speaker(name) returns the profile of the table's entry
\* whose language is the interface language and whose name is name, both up
\* to case and surrounding whitespace; it raises ValueError when there is no
\* such entry; the interface language is what it was before.
C9_DefaultSpeakerLookup ==
    last_call.op = "load_default_speaker" =>
        /\ language = last_call.before
        /\ IF \E lk \in DOMAIN _DEFAULT_SPEAKERS :
                 /\ Matches(language, lk)
                 /\ \E nk \in DOMAIN _DEFAULT_SPEAKERS[lk] : Matches(last_call.arg, nk)
           THEN \E lk \in DOMAIN _DEFAULT_SPEAKERS :
                    /\ Matches(language, lk)
                    /\ \E nk \in DOMAIN _DEFAULT_SPEAKERS[lk] :
                           /\ Matches(last_call.arg, nk)
                           /\ result.err = NoError
                           /\ result.value = load_speaker(_DEFAULT_SPEAKERS[lk][nk])
           ELSE result.err = ValueError

C9_Witness ==
    /\ last_call.op = "load_default_speaker"
    /\ result.err = NoError
    /\ last_call.arg # Lower(last_call.arg)
    /\ last_call.arg # Strip(last_call.arg)
    /\ language # Strip(Lower(language))

-----------------------------------------------------------------------------
\* create_speaker.

\* round(num / den) for num >= 0, den > 0: to the nearest integer, a tie to
\* the even one
py_round(num, den) ==
    LET q == num \div den
        r == num % den
    IN IF 2 * r < den THEN q
       ELSE IF 2 * r > den THEN q + 1
       ELSE IF q % 2 = 0 THEN q ELSE q + 1

\* seq[start:end] for start >= 0 and end >= 0
py_slice(seq, start, end) ==
    LET lo == IF start < Len(seq) THEN start ELSE Len(seq)
        hi == IF end < Len(seq) THEN end ELSE Len(seq)
    IN IF hi <= lo THEN <<>> ELSE SubSeq(seq, lo + 1, hi)

\* int(round((x1 / ctc.sample_rate) * 75))
word_end(x1, sample_rate) == py_round(x1 * CodesPerSecond, sample_rate)

speaker_words_from_zero(words, full_codes, sample_rate, k, start, data) ==
    [i \in 1..Len(words) |->
        LET word_tokens == py_slice(full_codes, 0, word_end(words[i].x1, sample_rate))
        IN [word |-> words[i].word,
            duration |-> py_round(100 * Len(IF word_tokens = <<>> THEN <<1>> ELSE word_tokens),
                                  CodesPerSecond),
            codes |-> IF word_tokens = <<>> THEN <<1>> ELSE word_tokens]]

\* the loop of create_speaker over the aligned words, from word k on;
\* duration is in hundredths of a second
RECURSIVE speaker_words(_, _, _, _, _, _)
speaker_words(words, full_codes, sample_rate, k, start, data) ==
    IF k > Len(words) THEN data
    ELSE LET end == word_end(words[k].x1, sample_rate)
             slice == py_slice(full_codes, start, end)
             word_tokens == IF slice = <<>> THEN <<1>> ELSE slice
         IN speaker_words(words, full_codes, sample_rate, k + 1, end,
                          Append(data, [word |-> words[k].word,
                                        duration |-> py_round(100 * Len(word_tokens),
                                                              CodesPerSecond),
                                        codes |-> word_tokens]))

\* create_speaker: whisper answers heard when no transcript is given; the
\* aligner returns words, the codec full_codes
create_speaker(transcript, heard, words, full_codes, sample_rate, lang) ==
    LET text == IF transcript = NoTranscript THEN heard ELSE transcript
        asked == IF transcript = NoTranscript THEN {"transcribe"} ELSE {}
    IN IF text = <<>>
       THEN [err |-> ValueError, calls |-> asked, value |-> None]
       ELSE [err |-> NoError,
             calls |-> asked \cup {"align", "encode"},
             value |-> [text |-> text,
                        words |-> speaker_words(words, full_codes, sample_rate, 1, 0, <<>>),
                        language |-> lang]]

Transcripts == {NoTranscript, <<>>, <<"a">>}
Heard == {<<>>, <<"a", "a">>}
SampleRates == {CodesPerSecond, 2 * CodesPerSecond}

\* the words an alignment returns: word i of the transcript with its end x1
AlignedWords ==
    UNION {[1..n -> 0..MaxX1] : n \in 0..MaxWords}

WordsOf(ends) == [i \in 1..Len(ends) |-> [word |-> i, x1 |-> ends[i]]]

\* the encoded audio: code i at index i - 1 (so code 1, the placeholder's
\* value, is also a real code)
CodesOfLength(n) == [i \in 1..n |-> i]

\* what a call of create_speaker is given and what whisper, the aligner and
\* the codec answer in it
SpeakerInputs ==
    {[transcript |-> transcript, heard |-> heard, words |-> WordsOf(ends),
      full_codes |-> CodesOfLength(n), sample_rate |-> sample_rate] :
        transcript \in Transcripts, heard \in Heard, ends \in AlignedWords,
        n \in 0..MaxCodes, sample_rate \in SampleRates}

InitCreateSpeaker ==
    /\ InitStreamVars
    /\ InitObject
    /\ InitCalls
    /\ max_seq_length = MaxLength
    /\ sp_input \in SpeakerInputs
    /\ sp_calls = {}
    /\ sp_result = NotCalled

CreateSpeaker ==
    /\ pc = "idle"
    /\ sp_result = NotCalled
    /\ LET r == create_speaker(sp_input.transcript, sp_input.heard, sp_input.words,
                               sp_input.full_codes, sp_input.sample_rate, language)
       IN /\ sp_calls' = r.calls
          /\ sp_result' = [err |-> r.err, model_called |-> FALSE, value |-> r.value]
    /\ UNCHANGED <<sp_input, objectVars, callVars, model_calls, max_seq_length,
                   streamVars>>

NextCreateSpeaker == CreateSpeaker

SpecCreateSpeaker == InitCreateSpeaker /\ [][NextCreateSpeaker]_vars

\* ---- the claim, from the inputs of the call

SpeakerCalled == sp_result.err # "not called"

TranscriptUsed ==
    IF sp_input.transcript = NoTranscript THEN sp_input.heard ELSE sp_input.transcript

NonDecreasing(words) ==
    \A i, j \in 1..Len(words) : i < j => words[i].x1 <= words[j].x1

\* the index in full_codes that word i ends at, and the one it starts at
EndIndex(i) ==
    IF i = 0 THEN 0
    ELSE LET e == word_end(sp_input.words[i].x1, sp_input.sample_rate)
         IN IF e < Len(sp_input.full_codes) THEN e ELSE Len(sp_input.full_codes)

\* the codes of full_codes at the indices lo .. hi - 1
CodesAt(lo, hi) == [i \in 1..(hi - lo) |-> sp_input.full_codes[lo + i]]

\* C8: an empty transcript raises ValueError before any alignment or
\* encoding; otherwise there is one entry per aligned word, in alignment
\* order, with non-empty codes, and, the word ends x1 being non-decreasing,
\* each entry holds the codes from the previous word's end to its own end
\* (the placeholder [1] when there are none): consecutive slices from
\* index 0 on, so that every code index belongs to at most one word.
C8_OneSlicePerWord ==
    SpeakerCalled =>
        IF TranscriptUsed = <<>>
        THEN /\ sp_result.err = ValueError
             /\ sp_calls \cap {"align", "encode"} = {}
        ELSE LET data == sp_result.value.words
                 words == sp_input.words
             IN /\ sp_result.err = NoError
                /\ Len(data) = Len(words)
                /\ \A i \in 1..Len(data) :
                      /\ data[i].word = words[i].word
                      /\ data[i].codes # <<>>
                /\ NonDecreasing(words) =>
                      \A i \in 1..Len(data) :
                          /\ EndIndex(i - 1) <= EndIndex(i)
                          /\ data[i].codes =
                                IF EndIndex(i - 1) = EndIndex(i)
                                THEN <<1>>
                                ELSE CodesAt(EndIndex(i - 1), EndIndex(i))

C8_Witness ==
    /\ SpeakerCalled
    /\ sp_result.err = NoError
    /\ Len(sp_input.words) = 2
    /\ sp_input.words[1].x1 < sp_input.words[2].x1
    /\ sp_result.value.words[1].codes = <<1>>
    /\ sp_input.sample_rate = 2 * CodesPerSecond
    /\ Len(sp_result.value.words[2].codes) = 2
    /\ Len(sp_input.full_codes) = 3

====
